---- MODULE Spec2Model ----
(***************************************************************************)
(* A model of the dis-bootloader: the durable state store                  *)
(* (shared/src/state.rs), the flash operations (bootloader/src/flash.rs)   *)
(* and the boot dispatcher, swap engine and application handoff            *)
(* (bootloader/src/main.rs).                                               *)
(*                                                                         *)
(* A 32-bit word is the set of the positions of its 1-bits, so that        *)
(* bitwise AND is set intersection and XOR is symmetric difference.        *)
(* A flash page is scaled from 1024 words to PageWords words: the state    *)
(* buffer keeps word 0 (CRC), word 1 (goal) and the three per-page arrays; *)
(* the reserved words 2..255, which the bootloader never writes and which  *)
(* stay erased, are left out.                                              *)
(***************************************************************************)
EXTENDS Integers, Sequences, FiniteSets, TLC

(* ------------------------------ bounds --------------------------------- *)
\* number of pages of slot A and of slot B (program_slot_a_page_range().len())
TotalProgramPages == 2
\* largest number of scratch pages of a layout
MaxScratchPages == 2
\* largest number of resets that hit a running boot
MaxCrashes == 2
\* largest number of boots of one behaviour
MaxBoots == 3
\* largest number of pages of the bootloader's own code
MaxBootPages == 4

(* ------------------------------- words --------------------------------- *)
Bits == 0..31
ERASED == 0..31
ZERO == {}
VALID_WORD == {0, 2, 3, 5, 7, 12, 17, 28, 29, 31}

\* the word of a number below 2^31
FromNat(n) == {i \in 0..30 : (n \div (2^i)) % 2 = 1}

RECURSIVE SumBits(_, _)
SumBits(w, b) == IF b > 30 THEN 0
                 ELSE (IF b \in w THEN 2^b ELSE 0) + SumBits(w, b + 1)
\* the number of a word below 2^31
ToNat(w) == SumBits(w, 0)

PAGE_SIZE == 4096

(* --------------------------- state buffer ------------------------------ *)
CRC_INDEX == 0
GOAL_INDEX == 1
CACHED_PAGES_START == 2
COPIED_PAGES_START == CACHED_PAGES_START + TotalProgramPages
FINISHED_PAGE_START == COPIED_PAGES_START + TotalProgramPages
PageWords == FINISHED_PAGE_START + TotalProgramPages
WordIdx == 0..(PageWords - 1)
ProgramPages == 0..(TotalProgramPages - 1)

\* CRC-32/MPEG-2 of words 1..255 of the buffer, words 2..255 being erased.
\* The CRC is affine over GF(2): crc(goal) = CrcZero xor the columns of the
\* bits set in the goal word (little-endian bytes, as to_ne_bytes on the MCU).
CrcZero == {1, 5, 6, 7, 8, 9, 13, 15, 28, 30, 31}
CrcCol(i) ==
  CASE i = 0 -> {1, 4, 5, 10, 12, 16, 17, 20, 21, 22, 27, 28, 31}
    [] i = 1 -> {0, 1, 4, 6, 7, 8, 10, 12, 13, 16, 17, 18, 21, 26, 28, 29}
    [] i = 2 -> {1, 2, 5, 7, 8, 9, 11, 13, 14, 17, 18, 19, 22, 27, 29, 30}
    [] i = 3 -> {2, 3, 6, 8, 9, 10, 12, 14, 15, 18, 19, 20, 23, 28, 30, 31}
    [] i = 4 -> {0, 1, 2, 3, 5, 8, 9, 12, 13, 15, 19, 20, 21, 22, 23, 24, 26, 29, 31}
    [] i = 5 -> {0, 3, 5, 6, 7, 8, 9, 11, 12, 13, 14, 20, 21, 24, 25, 26, 27, 30}
    [] i = 6 -> {1, 4, 6, 7, 8, 9, 10, 12, 13, 14, 15, 21, 22, 25, 26, 27, 28, 31}
    [] i = 7 -> {0, 1, 4, 9, 12, 13, 14, 15, 27, 28, 29}
    [] i = 8 -> {1, 7, 8, 9, 11, 12, 13, 14, 17, 21, 22, 23, 26, 31}
    [] i = 9 -> {0, 1, 4, 5, 7, 9, 11, 13, 14, 15, 16, 18, 24, 26, 27}
    [] i = 10 -> {1, 2, 5, 6, 8, 10, 12, 14, 15, 16, 17, 19, 25, 27, 28}
    [] i = 11 -> {2, 3, 6, 7, 9, 11, 13, 15, 16, 17, 18, 20, 26, 28, 29}
    [] i = 12 -> {3, 4, 7, 8, 10, 12, 14, 16, 17, 18, 19, 21, 27, 29, 30}
    [] i = 13 -> {4, 5, 8, 9, 11, 13, 15, 17, 18, 19, 20, 22, 28, 30, 31}
    [] i = 14 -> {0, 1, 2, 4, 6, 7, 8, 9, 11, 14, 18, 19, 20, 21, 22, 26, 29, 31}
    [] i = 15 -> {0, 3, 4, 9, 11, 15, 16, 19, 20, 21, 26, 27, 30}
    [] i = 16 -> {0, 1, 3, 4, 6, 10, 11, 12, 13, 15, 17, 23, 24, 26, 28, 30, 31}
    [] i = 17 -> {0, 8, 10, 13, 14, 18, 22, 23, 24, 25, 26, 27, 29, 31}
    [] i = 18 -> {0, 2, 4, 5, 7, 8, 9, 10, 12, 14, 15, 16, 19, 22, 24, 25, 27, 28, 30}
    [] i = 19 -> {1, 3, 5, 6, 8, 9, 10, 11, 13, 15, 16, 17, 20, 23, 25, 26, 28, 29, 31}
    [] i = 20 -> {0, 1, 5, 6, 8, 9, 14, 17, 18, 21, 22, 23, 24, 27, 29, 30}
    [] i = 21 -> {1, 2, 6, 7, 9, 10, 15, 18, 19, 22, 23, 24, 25, 28, 30, 31}
    [] i = 22 -> {0, 1, 3, 4, 5, 12, 19, 20, 22, 24, 25, 29, 31}
    [] i = 23 -> {0, 6, 7, 8, 10, 11, 12, 13, 16, 20, 21, 22, 25, 30}
    [] i = 24 -> {1, 3, 4, 5, 7, 8, 9, 10, 11, 12, 15, 17, 18, 19, 20, 22, 23, 25, 26, 28, 30, 31}
    [] i = 25 -> {0, 1, 6, 7, 9, 13, 18, 19, 20, 21, 22, 24, 27, 29, 31}
    [] i = 26 -> {0, 4, 5, 11, 12, 14, 16, 19, 20, 21, 25, 26, 28, 30}
    [] i = 27 -> {1, 5, 6, 12, 13, 15, 17, 20, 21, 22, 26, 27, 29, 31}
    [] i = 28 -> {0, 1, 4, 5, 6, 8, 10, 11, 12, 13, 14, 18, 21, 26, 27, 28, 30}
    [] i = 29 -> {1, 2, 5, 6, 7, 9, 11, 12, 13, 14, 15, 19, 22, 27, 28, 29, 31}
    [] i = 30 -> {0, 1, 3, 4, 5, 6, 11, 13, 14, 15, 20, 22, 26, 28, 29, 30}
    [] i = 31 -> {1, 2, 4, 5, 6, 7, 12, 14, 15, 16, 21, 23, 27, 29, 30, 31}

calculate_self_crc(buf) ==
  {j \in Bits :
     ((IF j \in CrcZero THEN 1 ELSE 0)
        + Cardinality({i \in buf[GOAL_INDEX] : j \in CrcCol(i)})) % 2 = 1}

is_valid(buf) == buf[CRC_INDEX] = calculate_self_crc(buf)

set_valid(buf, validity) ==
  [buf EXCEPT ![CRC_INDEX] = IF validity THEN calculate_self_crc(buf) ELSE ERASED]

\* BootloaderGoal: the enumerands and their words
Goals == {"JumpToApplication", "StartSwap", "FinishSwap", "StartTestSwap", "FinishTestSwap"}
GoalNumber(g) ==
  CASE g = "JumpToApplication" -> 0
    [] g = "StartSwap" -> 1
    [] g = "FinishSwap" -> 2
    [] g = "StartTestSwap" -> 3
    [] g = "FinishTestSwap" -> 4
GoalWord(g) == FromNat(GoalNumber(g))

\* a decoder whose discriminants are off by one for the word 0
goal_zero_is_swap(buf) ==
  LET w == buf[GOAL_INDEX] IN
  IF w = ERASED THEN "JumpToApplication"
  ELSE IF w = ZERO THEN "StartSwap"
  ELSE IF \E g \in Goals : GoalWord(g) = w
       THEN CHOOSE g \in Goals : GoalWord(g) = w
       ELSE "Invalid"

\* a decoder that takes every word outside the enumeration for the default
goal_unknown_is_jump(buf) ==
  LET w == buf[GOAL_INDEX] IN
  IF \E g \in Goals : GoalWord(g) = w
    THEN CHOOSE g \in Goals : GoalWord(g) = w
    ELSE "JumpToApplication"

\* try_into of word[1]; "Invalid" stands for the Err that unwrap panics on
goal(buf) ==
  LET w == buf[GOAL_INDEX] IN
  IF w = ERASED THEN "JumpToApplication"
  ELSE IF \E g \in Goals : GoalWord(g) = w
       THEN CHOOSE g \in Goals : GoalWord(g) = w
       ELSE "Invalid"

\* a set_goal that leaves the CRC of the old goal in place
set_goal_stale_crc(buf, g) == [buf EXCEPT ![GOAL_INDEX] = GoalWord(g)]

\* a set_goal whose test of the old validity is inverted
set_goal_inverted(buf, g) ==
  LET valid == is_valid(buf)
      b1 == [buf EXCEPT ![GOAL_INDEX] = GoalWord(g)]
  IN IF ~valid THEN set_valid(b1, TRUE) ELSE b1

\* a set_goal that recomputes the CRC whatever the old validity was
set_goal_always_valid(buf, g) ==
  set_valid([buf EXCEPT ![GOAL_INDEX] = GoalWord(g)], TRUE)

set_goal(buf, g) ==
  LET valid == is_valid(buf)
      b1 == [buf EXCEPT ![GOAL_INDEX] = GoalWord(g)]
  IN IF valid THEN set_valid(b1, valid) ELSE b1

\* PageState: scratch_page is only meaningful for the two InScratch variants
Original == [tag |-> "Original", scratch_page |-> ZERO]
InScratch(s) == [tag |-> "InScratch", scratch_page |-> s]
InScratchOverwritten(s) == [tag |-> "InScratchOverwritten", scratch_page |-> s]
Swapped == [tag |-> "Swapped", scratch_page |-> ZERO]
InvalidPageState == [tag |-> "Invalid", scratch_page |-> ZERO]

\* a get_page_state whose last arm takes any other triple for Original
get_page_state_default_original(buf, p) ==
  LET cached_value == buf[CACHED_PAGES_START + p]
      copied_value == buf[COPIED_PAGES_START + p]
      finished_value == buf[FINISHED_PAGE_START + p]
  IN IF cached_value = ERASED /\ copied_value = ERASED /\ finished_value = ERASED
       THEN Original
     ELSE IF copied_value = ERASED /\ finished_value = ERASED
       THEN InScratch(cached_value)
     ELSE IF copied_value = VALID_WORD /\ finished_value = ERASED
       THEN InScratchOverwritten(cached_value)
     ELSE IF finished_value = VALID_WORD
       THEN Swapped
     ELSE Original

\* a get_page_state whose last arm takes any other triple for Swapped
get_page_state_default_swapped(buf, p) ==
  LET cached_value == buf[CACHED_PAGES_START + p]
      copied_value == buf[COPIED_PAGES_START + p]
      finished_value == buf[FINISHED_PAGE_START + p]
  IN IF cached_value = ERASED /\ copied_value = ERASED /\ finished_value = ERASED
       THEN Original
     ELSE IF copied_value = ERASED /\ finished_value = ERASED
       THEN InScratch(cached_value)
     ELSE IF copied_value = VALID_WORD /\ finished_value = ERASED
       THEN InScratchOverwritten(cached_value)
     ELSE Swapped

get_page_state(buf, p) ==
  LET cached_value == buf[CACHED_PAGES_START + p]
      copied_value == buf[COPIED_PAGES_START + p]
      finished_value == buf[FINISHED_PAGE_START + p]
  IN IF cached_value = ERASED /\ copied_value = ERASED /\ finished_value = ERASED
       THEN Original
     ELSE IF copied_value = ERASED /\ finished_value = ERASED
       THEN InScratch(cached_value)
     ELSE IF copied_value = VALID_WORD /\ finished_value = ERASED
       THEN InScratchOverwritten(cached_value)
     ELSE IF finished_value = VALID_WORD
       THEN Swapped
     ELSE InvalidPageState

\* a set_page_state that never writes the finished word
set_page_state_no_finished(buf, p, state) ==
  LET triple ==
        CASE state.tag = "Original" -> <<ERASED, ERASED, ERASED>>
          [] state.tag = "InScratch" -> <<state.scratch_page, ERASED, ERASED>>
          [] state.tag = "InScratchOverwritten" -> <<state.scratch_page, VALID_WORD, ERASED>>
          [] state.tag = "Swapped" -> <<VALID_WORD, VALID_WORD, VALID_WORD>>
  IN [buf EXCEPT ![CACHED_PAGES_START + p] = triple[1],
                 ![COPIED_PAGES_START + p] = triple[2]]

\* a set_page_state that mixes up the copied and the finished range
set_page_state_ranges_mixed(buf, p, state) ==
  LET triple ==
        CASE state.tag = "Original" -> <<ERASED, ERASED, ERASED>>
          [] state.tag = "InScratch" -> <<state.scratch_page, ERASED, ERASED>>
          [] state.tag = "InScratchOverwritten" -> <<state.scratch_page, VALID_WORD, ERASED>>
          [] state.tag = "Swapped" -> <<VALID_WORD, VALID_WORD, VALID_WORD>>
  IN [buf EXCEPT ![CACHED_PAGES_START + p] = triple[1],
                 ![FINISHED_PAGE_START + p] = triple[2],
                 ![COPIED_PAGES_START + p] = triple[3]]

\* a set_page_state that indexes the arrays with the number of the next page
set_page_state_next_page(buf, p, state) ==
  LET q == (p + 1) % TotalProgramPages
      triple ==
        CASE state.tag = "Original" -> <<ERASED, ERASED, ERASED>>
          [] state.tag = "InScratch" -> <<state.scratch_page, ERASED, ERASED>>
          [] state.tag = "InScratchOverwritten" -> <<state.scratch_page, VALID_WORD, ERASED>>
          [] state.tag = "Swapped" -> <<VALID_WORD, VALID_WORD, VALID_WORD>>
  IN [buf EXCEPT ![CACHED_PAGES_START + q] = triple[1],
                 ![COPIED_PAGES_START + q] = triple[2],
                 ![FINISHED_PAGE_START + q] = triple[3]]

\* a set_page_state that brings the CRC word up to date, as set_goal does
set_page_state_refresh_crc(buf, p, state) ==
  LET triple ==
        CASE state.tag = "Original" -> <<ERASED, ERASED, ERASED>>
          [] state.tag = "InScratch" -> <<state.scratch_page, ERASED, ERASED>>
          [] state.tag = "InScratchOverwritten" -> <<state.scratch_page, VALID_WORD, ERASED>>
          [] state.tag = "Swapped" -> <<VALID_WORD, VALID_WORD, VALID_WORD>>
  IN set_valid([buf EXCEPT ![CACHED_PAGES_START + p] = triple[1],
                           ![COPIED_PAGES_START + p] = triple[2],
                           ![FINISHED_PAGE_START + p] = triple[3]], TRUE)

\* an index check against the whole buffer instead of the array's slice
PageIndexInRange_whole_buffer(p) == CACHED_PAGES_START + p \in WordIdx

\* self.buffer[Self::CACHED_PAGES_RANGE][page as usize]: the index is checked
\* against the length of the slice of one array; outside it the call panics
PageIndexInRange(p) == p \in 0..(TotalProgramPages - 1)

set_page_state(buf, p, state) ==
  LET triple ==
        CASE state.tag = "Original" -> <<ERASED, ERASED, ERASED>>
          [] state.tag = "InScratch" -> <<state.scratch_page, ERASED, ERASED>>
          [] state.tag = "InScratchOverwritten" -> <<state.scratch_page, VALID_WORD, ERASED>>
          [] state.tag = "Swapped" -> <<VALID_WORD, VALID_WORD, VALID_WORD>>
  IN [buf EXCEPT ![CACHED_PAGES_START + p] = triple[1],
                 ![COPIED_PAGES_START + p] = triple[2],
                 ![FINISHED_PAGE_START + p] = triple[3]]


RECURSIVE ResetPages(_, _)
ResetPages(buf, n) ==
  IF n = 0 THEN buf
  ELSE set_page_state(ResetPages(buf, n - 1), n - 1, Original)

\* a prepare_swap that sets the goal and leaves the page states alone
prepare_swap_keeps_pages(buf, test) ==
  set_goal(buf, IF test THEN "FinishTestSwap" ELSE "FinishSwap")

\* the buffer that prepare_swap hands to store
prepare_swap(buf, test) ==
  ResetPages(set_goal(buf, IF test THEN "FinishTestSwap" ELSE "FinishSwap"),
             TotalProgramPages)

(* ----------------------------- region map ------------------------------ *)
\* The linker symbols are inputs: a layout is the number of pages of the
\* bootloader code and of the scratch region; the regions follow each other
\* in the order code, scratch, state, slot A, slot B.
BootSizes == {MaxBootPages - 2, MaxBootPages}
Layouts == [boot : BootSizes, scratch : 1..MaxScratchPages]
FlashPages == 0..(MaxBootPages + MaxScratchPages + 2 + 2 * TotalProgramPages - 1)

VARIABLES
  layout,               \* the linker-provided region map
  request,              \* how the state region was left before the first boot
  flash,                \* flash[page][word]
  buffer,               \* BootloaderState.buffer of the running boot
  pc,                   \* where the running boot is
  test_swap,            \* perform_swap's argument
  page,                 \* perform_swap's loop variable
  scratch_page_index,   \* perform_swap's round-robin index
  new_state,            \* the PageState the running transition will record
  todo,                 \* the flash calls of the running step still to be made
  idx,                  \* position of program_page's iterator in its page
  application_address,  \* what jump_to_application bootloads (-1: nothing)
  boots,                \* number of boots so far
  crashes,              \* number of resets that hit a running boot
  calls,                \* erase_page/program_page calls issued by this boot
  dispatched,           \* what the dispatcher of this boot decided on
  crash_at,             \* pc of the boot that the last reset hit
  store_from,           \* the two mirrors as the last store found them
  config,               \* the mode of the flash controller (CONFIG.WEN)
  panics,               \* PANIC_COUNTS, a word of RAM that resets do not clear
  panic_message,        \* a panic message is persisted in RAM
  first_crash           \* whether the first reset hit prepare_swap's store

vars == <<layout, request, flash, buffer, pc, test_swap, page, scratch_page_index,
          new_state, todo, idx, application_address, boots, crashes, calls,
          dispatched, crash_at, store_from, config, panics, panic_message,
          first_crash>>

bootloader_flash_page_range == [start |-> 0, end |-> layout.boot]
bootloader_scratch_page_range ==
  [start |-> layout.boot, end |-> layout.boot + layout.scratch]
bootloader_state_page_range ==
  [start |-> bootloader_scratch_page_range.end,
   end |-> bootloader_scratch_page_range.end + 2]
program_slot_a_page_range ==
  [start |-> bootloader_state_page_range.end,
   end |-> bootloader_state_page_range.end + TotalProgramPages]
program_slot_b_page_range ==
  [start |-> program_slot_a_page_range.end,
   end |-> program_slot_a_page_range.end + TotalProgramPages]

\* a first state page taken from the bootloader's flash region
StatePage0_of_flash_region == bootloader_flash_page_range.start

StatePage0 == bootloader_state_page_range.start
StatePage1 == bootloader_state_page_range.start + 1

(* ------------------------------- flash --------------------------------- *)
ErasedPage == [i \in WordIdx |-> ERASED]

\* the effect of erase_page on the flash array
erase_page(fl, pg) == [fl EXCEPT ![pg] = ErasedPage]

\* one word write of program_page: NOR flash can only clear bits, the word
\* that results is the AND of the old content and the written word
write_word(fl, pg, i, w) == [fl EXCEPT ![pg][i] = @ \cap w]

\* the data slice of a program_page call: the RAM buffer (src = -1) or the
\* words of a flash page, read when the iterator gets to them
Data(call) == IF call.src = -1 THEN buffer ELSE flash[call.src]

\* program_page's filter: the words from position i on that differ from flash
Differing(call, i) == {j \in WordIdx : j >= i /\ Data(call)[j] # flash[call.dst][j]}

Erase(pg) == [kind |-> "erase", dst |-> pg, src |-> -1]
Program(pg, from) == [kind |-> "program", dst |-> pg, src |-> from]

\* a store that programs the mirrors without erasing them
store_without_erase == <<Program(StatePage0, -1), Program(StatePage1, -1)>>

\* a store that erases both mirrors before it programs either
store_erase_both_first == <<Erase(StatePage0), Erase(StatePage1),
                            Program(StatePage0, -1), Program(StatePage1, -1)>>

\* the calls of BootloaderState::store and BootloaderState::burn_store
store == <<Erase(StatePage0), Program(StatePage0, -1),
           Erase(StatePage1), Program(StatePage1, -1)>>
\* a burn_store that leaves the second mirror alone
burn_store_primary_only == <<Program(StatePage0, -1)>>

burn_store == <<Program(StatePage0, -1), Program(StatePage1, -1)>>

Mirrors == <<flash[StatePage0], flash[StatePage1]>>

\* a load that never falls back to the second mirror
load_primary_only(fl) == fl[StatePage0]

\* BootloaderState::load
load(fl) == IF is_valid(fl[StatePage0]) THEN fl[StatePage0] ELSE fl[StatePage1]


(* --------------------------- flash contents ---------------------------- *)
\* The two images are linked for slot A: page 0 starts with the vector table
\* (initial stack pointer, reset vector), all other words are data that
\* tell the image, the page and the word apart.
ImageWord(image, p, i) ==
  IF p = 0 /\ i = 0
    THEN FromNat(536870912 + (IF image = "A" THEN 2560 ELSE 2816))
  ELSE IF p = 0 /\ i = 1
    THEN FromNat(program_slot_a_page_range.start * PAGE_SIZE
                   + (IF image = "A" THEN 161 ELSE 177))
  ELSE FromNat((IF image = "A" THEN 168427520 ELSE 185270272) + 256 * p + i)

OrigA(p) == [i \in WordIdx |-> ImageWord("A", p, i)]
OrigB(p) == [i \in WordIdx |-> ImageWord("B", p, i)]
CodePage(pg) == [i \in WordIdx |-> FromNat(202178560 + 256 * pg + i)]

\* a state buffer as the state API leaves it: goal g, every page in state ps
MakeState(g, ps) ==
  LET RECURSIVE SetAll(_, _)
      SetAll(buf, n) == IF n = 0 THEN buf
                        ELSE set_page_state(SetAll(buf, n - 1), n - 1, ps)
  IN set_valid([SetAll(ErasedPage, TotalProgramPages) EXCEPT ![GOAL_INDEX] = GoalWord(g)],
               TRUE)

\* the same buffer with a CRC word that does not match
Corrupt(buf) == [buf EXCEPT ![CRC_INDEX] = ZERO]

\* What the state region holds before the first boot: a request written by
\* the application over a fresh state (pages Original) or over the state a
\* previous swap left (pages Swapped), an erased region, or a damaged mirror;
\* or a CRC-valid state that no run of the state API produces: a swap in
\* progress whose last page has the triple (FF, 0, FF), or a goal word that
\* is no enumerand.
Requests ==
  { [goal |-> "StartSwap", pages |-> "Swapped", mirrors |-> "same"],
    [goal |-> "StartTestSwap", pages |-> "Original", mirrors |-> "same"],
    [goal |-> "JumpToApplication", pages |-> "Swapped", mirrors |-> "same"],
    [goal |-> "JumpToApplication", pages |-> "Original", mirrors |-> "erased"],
    [goal |-> "JumpToApplication", pages |-> "Swapped", mirrors |-> "primary_corrupt"],
    [goal |-> "StartSwap", pages |-> "Original", mirrors |-> "primary_corrupt"],
    [goal |-> "StartSwap", pages |-> "Original", mirrors |-> "both_corrupt"],
    [goal |-> "FinishSwap", pages |-> "Tampered", mirrors |-> "same"],
    [goal |-> "FinishTestSwap", pages |-> "Tampered", mirrors |-> "same"],
    [goal |-> "StartSwap", pages |-> "Tampered", mirrors |-> "same"],
    [goal |-> "StartTestSwap", pages |-> "Tampered", mirrors |-> "same"],
    [goal |-> "Unknown", pages |-> "Swapped", mirrors |-> "same"],
    [goal |-> "UnknownTop", pages |-> "Swapped", mirrors |-> "same"],
    [goal |-> "UnknownAlmostErased", pages |-> "Swapped", mirrors |-> "same"],
    [goal |-> "Erased", pages |-> "Swapped", mirrors |-> "same"] }

\* a word[1] that try_into rejects
UnknownGoalWord == FromNat(5)

\* the word[1] of the requests that name no goal: 5, 0x80000000 and
\* 0xFFFFFFFE, which try_into rejects, and 0xFFFFFFFF, which it takes
RawGoalWord ==
  [Unknown |-> UnknownGoalWord,
   UnknownTop |-> {31},
   UnknownAlmostErased |-> ERASED \ {0},
   Erased |-> ERASED]

RequestState(r) ==
  IF r.pages = "Tampered"
    THEN [MakeState(r.goal, Original)
            EXCEPT ![COPIED_PAGES_START + TotalProgramPages - 1] = ZERO]
  ELSE IF r.goal \in DOMAIN RawGoalWord
    THEN set_valid([MakeState("JumpToApplication", Swapped)
                      EXCEPT ![GOAL_INDEX] = RawGoalWord[r.goal]], TRUE)
  ELSE MakeState(r.goal, IF r.pages = "Swapped" THEN Swapped ELSE Original)

InitFlash(r) ==
  [pg \in FlashPages |->
     IF pg < bootloader_flash_page_range.end THEN CodePage(pg)
     ELSE IF pg < bootloader_scratch_page_range.end THEN ErasedPage
     ELSE IF pg = StatePage0
       THEN CASE r.mirrors = "same" -> RequestState(r)
              [] r.mirrors = "erased" -> ErasedPage
              [] OTHER -> Corrupt(RequestState(r))
     ELSE IF pg = StatePage1
       THEN CASE r.mirrors \in {"same", "primary_corrupt"} -> RequestState(r)
              [] r.mirrors = "erased" -> ErasedPage
              [] OTHER -> Corrupt(RequestState(r))
     ELSE IF pg < program_slot_a_page_range.end
       THEN OrigA(pg - program_slot_a_page_range.start)
     ELSE IF pg < program_slot_b_page_range.end
       THEN OrigB(pg - program_slot_b_page_range.start)
     ELSE ErasedPage]

SlotA(p) == flash[program_slot_a_page_range.start + p]
SlotB(p) == flash[program_slot_b_page_range.start + p]

(* ------------------------- application handoff ------------------------- *)
\* 0x2000_0000 <= w < 0x2004_0000: bit 29 set, bits 18..28, 30 and 31 clear
InSram(w) == w \cap (18..31) = {29}
\* program_slot_a_range().contains(w)
InSlotA(w) ==
  /\ 31 \notin w
  /\ ToNat(w) \div PAGE_SIZE >= program_slot_a_page_range.start
  /\ ToNat(w) \div PAGE_SIZE < program_slot_a_page_range.end

\* a search loop that records the address of the reset-vector word
RECURSIVE Walk_reset_vector_base(_, _, _)
Walk_reset_vector_base(k, app, found) ==
  IF k >= TotalProgramPages * PageWords THEN app
  ELSE LET pg == program_slot_a_page_range.start + (k \div PageWords)
           possible_address == pg * PAGE_SIZE + 4 * (k % PageWords)
           address_value == flash[pg][k % PageWords]
       IN IF address_value = ERASED \/ address_value = ZERO
            THEN Walk_reset_vector_base(k + 1, app, found)
          ELSE IF InSram(address_value) /\ ~found
            THEN Walk_reset_vector_base(k + 1, possible_address, TRUE)
          ELSE IF InSlotA(address_value) /\ found
            THEN possible_address
          ELSE -1

\* a search loop whose last arm keeps the address of the word it stops at
RECURSIVE Walk_any_word(_, _, _)
Walk_any_word(k, app, found) ==
  IF k >= TotalProgramPages * PageWords THEN app
  ELSE LET pg == program_slot_a_page_range.start + (k \div PageWords)
           possible_address == pg * PAGE_SIZE + 4 * (k % PageWords)
           address_value == flash[pg][k % PageWords]
       IN IF address_value = ERASED \/ address_value = ZERO
            THEN Walk_any_word(k + 1, app, found)
          ELSE IF InSram(address_value) /\ ~found
            THEN Walk_any_word(k + 1, possible_address, TRUE)
          ELSE IF InSlotA(address_value) /\ found
            THEN app
          ELSE possible_address

\* the for loop of jump_to_application from word k of slot A on; app is the
\* candidate address (-1: None)
RECURSIVE Walk(_, _, _)
Walk(k, app, found) ==
  IF k >= TotalProgramPages * PageWords THEN app
  ELSE LET pg == program_slot_a_page_range.start + (k \div PageWords)
           possible_address == pg * PAGE_SIZE + 4 * (k % PageWords)
           address_value == flash[pg][k % PageWords]
       IN IF address_value = ERASED \/ address_value = ZERO
            THEN Walk(k + 1, app, found)
          ELSE IF InSram(address_value) /\ ~found
            THEN Walk(k + 1, possible_address, TRUE)
          ELSE IF InSlotA(address_value) /\ found
            THEN app
          ELSE -1

FindApplication == Walk(0, -1, FALSE)


(* ------------------------------ behaviour ------------------------------ *)
Init ==
  /\ layout \in Layouts
  /\ request \in Requests
  /\ flash = InitFlash(request)
  /\ buffer = ErasedPage
  /\ pc = "load"
  /\ test_swap = FALSE
  /\ page = 0
  /\ scratch_page_index = 0
  /\ new_state = Original
  /\ todo = <<>>
  /\ idx = 0
  /\ application_address = -1
  /\ boots = 1
  /\ crashes = 0
  /\ calls = 0
  /\ dispatched = "none"
  /\ crash_at = "none"
  /\ store_from = <<ErasedPage, ErasedPage>>
  /\ config = "Ren"
  /\ panics = 0
  /\ panic_message = FALSE
  /\ first_crash = "none"

\* the counter a boot has a threshold for
PanicLimit == 10

\* a count that adds the panic before it checks the range of the counter
CountedPanics_count_first(n, msg) ==
  LET counted == IF msg /\ n <= PanicLimit THEN n + 1 ELSE n
  IN IF counted > PanicLimit THEN 0 ELSE counted

\* run_main on PANIC_COUNTS before the sleep: a value out of range is taken
\* for garbage and set to 0, then a persisted panic message is counted
CountedPanics(n, msg) ==
  LET plausible == IF n > PanicLimit THEN 0 ELSE n
  IN IF msg THEN plausible + 1 ELSE plausible

\* run_main from the panic counter to BootloaderState::load(): with too many
\* panics it waits for a byte on the UART first; get_panic_message_bytes
\* hands the message out once
Load ==
  /\ pc = "load"
  /\ panics' = CountedPanics(panics, panic_message)
  /\ panic_message' = FALSE
  /\ IF CountedPanics(panics, panic_message) > PanicLimit
       THEN pc' = "sleep" /\ UNCHANGED buffer
       ELSE pc' = "dispatch" /\ buffer' = load(flash)
  /\ UNCHANGED <<first_crash, config, layout, request, flash, test_swap, page, scratch_page_index, new_state,
                 todo, idx, application_address, boots, crashes, calls, dispatched,
                 crash_at, store_from>>

\* uart.read(&mut buffer) returns: the counter is cleared and the boot goes on
UartByte ==
  /\ pc = "sleep"
  /\ panics' = 0
  /\ buffer' = load(flash)
  /\ pc' = "dispatch"
  /\ UNCHANGED <<first_crash, panic_message, config, layout, request, flash, test_swap, page,
                 scratch_page_index, new_state, todo, idx, application_address, boots,
                 crashes, calls, dispatched, crash_at, store_from>>

\* a run_main that reads the goal without the validity check
Decision_unchecked(buf) == goal(buf)

\* a run_main that takes a swap in progress for a new request
Decision_restarts(buf) ==
  IF ~is_valid(buf) THEN "InvalidState"
  ELSE IF goal(buf) = "FinishSwap" THEN "StartSwap"
  ELSE IF goal(buf) = "FinishTestSwap" THEN "StartTestSwap"
  ELSE goal(buf)

\* what run_main decides on: the validity check comes first, the goal is
\* only read from a valid state
Decision(buf) == IF ~is_valid(buf) THEN "InvalidState" ELSE goal(buf)

\* run_main from the validity check to the call the goal selects
Dispatch ==
  /\ pc = "dispatch"
  /\ dispatched' = Decision(buffer)
  /\ CASE Decision(buffer) \in {"InvalidState", "JumpToApplication"} ->
            /\ pc' = "jump"
            /\ UNCHANGED <<buffer, test_swap, todo, calls, store_from>>
       [] Decision(buffer) = "Invalid" ->
            /\ pc' = "panic"
            /\ UNCHANGED <<buffer, test_swap, todo, calls, store_from>>
       [] Decision(buffer) \in {"StartSwap", "StartTestSwap"} ->
            /\ test_swap' = (Decision(buffer) = "StartTestSwap")
            /\ buffer' = prepare_swap(buffer, Decision(buffer) = "StartTestSwap")
            /\ todo' = store
            /\ calls' = calls + Len(store)
            /\ store_from' = Mirrors
            /\ pc' = "prepare_swap"
       [] Decision(buffer) \in {"FinishSwap", "FinishTestSwap"} ->
            /\ test_swap' = (Decision(buffer) = "FinishTestSwap")
            /\ pc' = "perform_swap"
            /\ UNCHANGED <<buffer, todo, calls, store_from>>
  /\ page' = 0
  /\ scratch_page_index' = 0
  /\ UNCHANGED <<first_crash, panics, panic_message, config, layout, request, flash, new_state, idx, application_address, boots,
                 crashes, crash_at>>

\* prepare_swap's store has returned: perform_swap begins
PrepareSwapReturns ==
  /\ pc = "prepare_swap"
  /\ todo = <<>>
  /\ pc' = "perform_swap"
  /\ UNCHANGED <<first_crash, panics, panic_message, config, layout, request, flash, buffer, test_swap, page, scratch_page_index,
                 new_state, todo, idx, application_address, boots, crashes, calls,
                 dispatched, crash_at, store_from>>

\* a last transition that reads the scratch page of the running index
SourcePage_running_index(scratch_page) ==
  bootloader_scratch_page_range.start + scratch_page_index

\* the page that scratch_page * PAGE_SIZE (a u32 product) addresses
SourcePage(scratch_page) == ToNat(scratch_page \cap (0..19))

\* a perform_swap that forgets the test swap
terminal_goal_plain(test) == "JumpToApplication"

\* the goal perform_swap sets when every page is swapped
terminal_goal(test) == IF test THEN "StartSwap" ELSE "JumpToApplication"

\* perform_swap at the head of its loops: the next page, the next transition
\* of the page, or the terminal goal
PerformSwap ==
  /\ pc = "perform_swap"
  /\ IF page = TotalProgramPages
       THEN /\ buffer' = set_goal(buffer, terminal_goal(test_swap))
            /\ todo' = store
            /\ calls' = calls + Len(store)
            /\ store_from' = Mirrors
            /\ pc' = "final_store"
            /\ UNCHANGED <<page, scratch_page_index, new_state>>
     ELSE LET slot_a_page == program_slot_a_page_range.start + page
              slot_b_page == program_slot_b_page_range.start + page
              state == get_page_state(buffer, page)
          IN CASE state.tag = "Swapped" ->
                    \* the remainder by total_scratch_pages = 0 panics
                    /\ IF layout.scratch = 0
                         THEN /\ pc' = "panic"
                              /\ UNCHANGED <<page, scratch_page_index>>
                         ELSE /\ page' = page + 1
                              /\ scratch_page_index' =
                                   (scratch_page_index + 1) % layout.scratch
                              /\ UNCHANGED pc
                    /\ UNCHANGED <<buffer, todo, calls, new_state, store_from>>
               [] state.tag = "Original" ->
                    LET scratch_page ==
                          bootloader_scratch_page_range.start + scratch_page_index
                    IN /\ todo' = <<Erase(scratch_page), Program(scratch_page, slot_a_page)>>
                       /\ new_state' = InScratch(FromNat(scratch_page))
                       /\ calls' = calls + 2
                       /\ pc' = "transition"
                       /\ UNCHANGED <<buffer, page, scratch_page_index, store_from>>
               [] state.tag = "InScratch" ->
                    /\ todo' = <<Erase(slot_a_page), Program(slot_a_page, slot_b_page)>>
                    /\ new_state' = InScratchOverwritten(state.scratch_page)
                    /\ calls' = calls + 2
                    /\ pc' = "transition"
                    /\ UNCHANGED <<buffer, page, scratch_page_index, store_from>>
               [] state.tag = "InScratchOverwritten" ->
                    /\ todo' = <<Erase(slot_b_page),
                                 Program(slot_b_page, SourcePage(state.scratch_page))>>
                    /\ new_state' = Swapped
                    /\ calls' = calls + 2
                    /\ pc' = "transition"
                    /\ UNCHANGED <<buffer, page, scratch_page_index, store_from>>
               [] state.tag = "Invalid" ->
                    /\ pc' = "panic"
                    /\ UNCHANGED <<buffer, todo, calls, page, scratch_page_index,
                                   new_state, store_from>>
  /\ UNCHANGED <<first_crash, panics, panic_message, config, layout, request, flash, test_swap, idx, application_address, boots,
                 crashes, dispatched, crash_at>>

Running == {"prepare_swap", "transition", "burn_store", "final_store"}

\* Flash::erase_page
ErasePage ==
  /\ pc \in Running
  /\ todo # <<>>
  /\ Head(todo).kind = "erase"
  /\ flash' = erase_page(flash, Head(todo).dst)
  /\ todo' = Tail(todo)
  /\ config' = "Ren"
  /\ UNCHANGED <<first_crash, panics, panic_message, layout, request, buffer, pc, test_swap, page, scratch_page_index,
                 new_state, idx, application_address, boots, crashes, calls, dispatched,
                 crash_at, store_from>>

\* the data slice of a program_page call lies in RAM or in the flash; a
\* slice made from a scratch_page word that is no page of the flash does not
Readable(call) == call.src = -1 \/ call.src \in FlashPages

\* Flash::program_page: the next word that differs from flash is written;
\* the read of a slice outside the memory map is a bus fault, and the
\* HardFault handler panics
ProgramWord ==
  /\ pc \in Running
  /\ todo # <<>>
  /\ Head(todo).kind = "program"
  /\ Readable(Head(todo)) => Differing(Head(todo), idx) # {}
  /\ IF Readable(Head(todo))
       THEN LET j == CHOOSE j \in Differing(Head(todo), idx) :
                       \A k \in Differing(Head(todo), idx) : j <= k
            IN /\ flash' = write_word(flash, Head(todo).dst, j, Data(Head(todo))[j])
               /\ idx' = j + 1
               /\ UNCHANGED <<pc, todo>>
       ELSE /\ pc' = "panic"
            /\ todo' = <<>>
            /\ UNCHANGED <<flash, idx>>
  /\ config' = "Wen"
  /\ UNCHANGED <<first_crash, panics, panic_message, layout, request, buffer, test_swap, page, scratch_page_index,
                 new_state, application_address, boots, crashes, calls,
                 dispatched, crash_at, store_from>>

\* Flash::program_page: no word is left to write, the call returns
ProgramReturns ==
  /\ pc \in Running
  /\ todo # <<>>
  /\ Head(todo).kind = "program"
  /\ Readable(Head(todo))
  /\ Differing(Head(todo), idx) = {}
  /\ todo' = Tail(todo)
  /\ idx' = 0
  /\ config' = "Ren"
  /\ UNCHANGED <<first_crash, panics, panic_message, layout, request, flash, buffer, pc, test_swap, page,
                 scratch_page_index, new_state, application_address, boots, crashes,
                 calls, dispatched, crash_at, store_from>>

\* the page is copied: state.set_page_state(page, ..); state.burn_store(flash);
RecordTransition ==
  /\ pc = "transition"
  /\ todo = <<>>
  /\ buffer' = set_page_state(buffer, page, new_state)
  /\ todo' = burn_store
  /\ calls' = calls + Len(burn_store)
  /\ pc' = "burn_store"
  /\ UNCHANGED <<first_crash, panics, panic_message, config, layout, request, flash, test_swap, page, scratch_page_index,
                 new_state, idx, application_address, boots, crashes, dispatched,
                 crash_at, store_from>>

\* burn_store has returned: back to the head of the while loop
BurnStoreReturns ==
  /\ pc = "burn_store"
  /\ todo = <<>>
  /\ pc' = "perform_swap"
  /\ UNCHANGED <<first_crash, panics, panic_message, config, layout, request, flash, buffer, test_swap, page, scratch_page_index,
                 new_state, todo, idx, application_address, boots, crashes, calls,
                 dispatched, crash_at, store_from>>

\* the final store has returned: perform_swap returns to run_main
PerformSwapReturns ==
  /\ pc = "final_store"
  /\ todo = <<>>
  /\ pc' = "jump"
  /\ UNCHANGED <<first_crash, panics, panic_message, config, layout, request, flash, buffer, test_swap, page, scratch_page_index,
                 new_state, todo, idx, application_address, boots, crashes, calls,
                 dispatched, crash_at, store_from>>

\* jump_to_application
JumpToApplication ==
  /\ pc = "jump"
  /\ IF FindApplication = -1
       THEN pc' = "panic" /\ UNCHANGED application_address
       ELSE pc' = "app" /\ application_address' = FindApplication
  /\ UNCHANGED <<first_crash, panics, panic_message, config, layout, request, flash, buffer, test_swap, page, scratch_page_index,
                 new_state, todo, idx, boots, crashes, calls, dispatched, crash_at,
                 store_from>>

\* main is entered from the top: nothing of the RAM of the last boot is used
Restart ==
  /\ boots < MaxBoots
  /\ boots' = boots + 1
  /\ pc' = "load"
  /\ buffer' = ErasedPage
  /\ test_swap' = FALSE
  /\ page' = 0
  /\ scratch_page_index' = 0
  /\ new_state' = Original
  /\ todo' = <<>>
  /\ idx' = 0
  /\ application_address' = -1
  /\ calls' = 0
  /\ dispatched' = "none"
  /\ store_from' = <<ErasedPage, ErasedPage>>
  /\ config' = "Ren"
  /\ panic_message' = (pc = "panic")
  /\ UNCHANGED <<layout, request, flash, panics>>

\* a reset or power loss hits the running bootloader
Reset ==
  /\ pc \notin {"app", "panic"}
  /\ crashes < MaxCrashes
  /\ crashes' = crashes + 1
  /\ crash_at' = pc
  /\ first_crash' = IF crashes > 0 THEN first_crash
                    ELSE IF pc = "prepare_swap" THEN "prepare_swap" ELSE "elsewhere"
  /\ Restart

\* the device resets after the handoff or after a panic
Reboot ==
  /\ pc \in {"app", "panic"}
  /\ UNCHANGED <<crashes, crash_at, first_crash>>
  /\ Restart

Next ==
  \/ Load
  \/ Dispatch
  \/ PrepareSwapReturns
  \/ PerformSwap
  \/ ErasePage
  \/ ProgramWord
  \/ ProgramReturns
  \/ RecordTransition
  \/ BurnStoreReturns
  \/ PerformSwapReturns
  \/ JumpToApplication
  \/ Reset
  \/ Reboot

Spec == Init /\ [][Next]_vars


(* ------------------------------- claims -------------------------------- *)
SlotsSwapped == \A p \in ProgramPages : SlotA(p) = OrigB(p) /\ SlotB(p) = OrigA(p)
SlotsOriginal == \A p \in ProgramPages : SlotA(p) = OrigA(p) /\ SlotB(p) = OrigB(p)
ScratchPages == bootloader_scratch_page_range.start..(bootloader_scratch_page_range.end - 1)
SwapGoals == {"StartSwap", "FinishSwap", "StartTestSwap", "FinishTestSwap"}
\* the durable state as the next boot will load it
Durable == load(flash)

\* C1: a boot without reset that finds a CRC-valid state with goal StartSwap
\* has, when perform_swap returns, exchanged every page of slot A and slot B,
\* and the goal is JumpToApplication in a valid state, in RAM and in flash.
C1_FullSwap ==
  (/\ request.goal = "StartSwap"
   /\ request.mirrors \in {"same", "primary_corrupt"}
   /\ boots = 1
   /\ pc \in {"jump", "app"})
  => /\ SlotsSwapped
     /\ goal(buffer) = "JumpToApplication" /\ is_valid(buffer)
     /\ goal(Durable) = "JumpToApplication" /\ is_valid(Durable)

C1_Witness ==
  /\ request.goal = "StartSwap"
  /\ request.mirrors = "same"
  /\ boots = 1
  /\ pc = "app"
  /\ dispatched = "StartSwap"
  /\ SlotsSwapped


\* C2: a single reset inside a transition of a page (page copy or the
\* burn_store that follows it), then a boot that resumes and completes
\* perform_swap: slot A and slot B end as in a swap without reset.
C2_Resumable ==
  (/\ crashes = 1 /\ boots = 2
   /\ crash_at \in {"transition", "burn_store"}
   /\ dispatched \in {"FinishSwap", "FinishTestSwap"}
   /\ pc \in {"jump", "app"})
  => SlotsSwapped

\* C3: the content slot A page p had before the swap is whole in slot A page
\* p, slot B page p or a scratch page, and the content slot B page p had is
\* whole in slot B page p or slot A page p (behaviours of a permanent swap).
C3_NeverLost ==
  request.goal = "StartSwap" =>
    \A p \in ProgramPages :
      /\ \/ SlotA(p) = OrigA(p)
         \/ SlotB(p) = OrigA(p)
         \/ \E s \in ScratchPages : flash[s] = OrigA(p)
      /\ \/ SlotB(p) = OrigB(p)
         \/ SlotA(p) = OrigB(p)

\* what a page state says about the flash
Consistent(p, state) ==
  CASE state.tag = "Original" -> SlotA(p) = OrigA(p)
    [] state.tag = "InScratch" ->
         /\ SourcePage(state.scratch_page) \in FlashPages
         /\ flash[SourcePage(state.scratch_page)] = OrigA(p)
    [] state.tag = "InScratchOverwritten" ->
         /\ SlotA(p) = OrigB(p)
         /\ SourcePage(state.scratch_page) \in FlashPages
         /\ flash[SourcePage(state.scratch_page)] = OrigA(p)
    [] state.tag = "Swapped" -> SlotA(p) = OrigB(p) /\ SlotB(p) = OrigA(p)
    [] OTHER -> FALSE

\* C4: the boot after a single reset during a swap finds both mirrors
\* CRC-invalid, or loads page states that are consistent with the flash:
\* Original, slot A page p is original; InScratch{s}, scratch page s is the
\* original slot A page p; InScratchOverwritten{s}, slot A page p is the
\* original slot B page p and scratch page s is the original slot A page p;
\* Swapped, the two pages are exchanged.  (Of the claim's InScratch clause
\* only the scratch half is stated: slot A page p is being rewritten during
\* InScratch -> InScratchOverwritten.)
C4_Consistent ==
  (/\ request.pages # "Tampered"
   /\ crashes = 1 /\ boots = 2
   /\ crash_at \in {"perform_swap", "transition", "burn_store"}
   /\ pc = "dispatch")
  => \/ ~is_valid(flash[StatePage0]) /\ ~is_valid(flash[StatePage1])
     \/ \A p \in ProgramPages : Consistent(p, get_page_state(buffer, p))

\* C6: without resets inside a boot, the first boot of a StartTestSwap request
\* ends with the slots exchanged and the goal StartSwap stored, and the second
\* boot ends with the slots as they were and the goal JumpToApplication stored.
C6_TestSwapReverts ==
  (/\ request.goal = "StartTestSwap"
   /\ crashes = 0
   /\ pc \in {"jump", "app"})
  => /\ boots = 1 => SlotsSwapped /\ is_valid(Durable) /\ goal(Durable) = "StartSwap"
     /\ boots = 2 => SlotsOriginal /\ is_valid(Durable)
                       /\ goal(Durable) = "JumpToApplication"
C6_Witness ==
  /\ request.goal = "StartTestSwap"
  /\ crashes = 0 /\ boots = 2 /\ pc = "app"
  /\ dispatched = "StartSwap"
  /\ SlotsOriginal

(* ------------------------ fairness for progress ------------------------ *)
BootStep ==
  \/ Load
  \/ Dispatch
  \/ PrepareSwapReturns
  \/ PerformSwap
  \/ ErasePage
  \/ ProgramWord
  \/ ProgramReturns
  \/ RecordTransition
  \/ BurnStoreReturns
  \/ PerformSwapReturns
  \/ JumpToApplication

\* A provisional swap is requested on a layout whose scratch page number
\* has no bit outside VALID_WORD; the bootloader is the only code that runs,
\* so a boot that is not reset goes on.
InitTestSwap ==
  /\ Init
  /\ layout = [boot |-> MaxBootPages, scratch |-> 1]
  /\ request = [goal |-> "StartTestSwap", pages |-> "Original", mirrors |-> "same"]
FairSpec == InitTestSwap /\ [][Next]_vars /\ WF_vars(BootStep)

SwapRequested == pc = "dispatch" /\ Decision(buffer) \in SwapGoals
SwapCompleted ==
  /\ pc = "app"
  /\ is_valid(Durable)
  /\ goal(Durable) \in {"StartSwap", "JumpToApplication"}

\* C5: when the dispatcher finds a swap goal in a valid state and resets stop
\* coming, some boot has every page swapped, the terminal goal stored in a
\* valid durable state and hands off to the application.
C5_Progress == SwapRequested ~> SwapCompleted

\* C7: a boot that loads a CRC-valid state whose goal word decodes to
\* JumpToApplication goes to the handoff, and no step of that boot issues an
\* erase_page or program_page or changes any word of flash.
C7_NoSwapOnJump ==
  [][/\ (/\ pc = "dispatch" /\ pc' # "load"
         /\ is_valid(buffer)
         /\ buffer[GOAL_INDEX] \in {ZERO, ERASED})
        => (pc' = "jump" /\ dispatched' = "JumpToApplication")
     /\ dispatched' = "JumpToApplication"
        => /\ flash' = flash
           /\ calls' = 0
           /\ todo' = <<>>
           /\ pc' \in {"jump", "app", "panic"}]_vars

C7_Witness ==
  /\ pc = "app"
  /\ dispatched = "JumpToApplication"
  /\ is_valid(flash[StatePage0])
  /\ calls = 0
  /\ flash = InitFlash(request)

\* C8: a boot that finds both mirrors CRC-invalid decides without reading the
\* goal, goes to the handoff, and no step of that boot issues an erase_page or
\* program_page or changes any word of flash.
C8_InvalidSkipsSwap ==
  [][/\ (/\ pc = "dispatch" /\ pc' # "load"
         /\ ~is_valid(flash[StatePage0])
         /\ ~is_valid(flash[StatePage1]))
        => (pc' = "jump" /\ dispatched' = "InvalidState")
     /\ dispatched' = "InvalidState"
        => /\ flash' = flash
           /\ calls' = 0
           /\ todo' = <<>>
           /\ pc' \in {"jump", "app", "panic"}]_vars

C8_Witness ==
  /\ pc = "app"
  /\ dispatched = "InvalidState"
  /\ ~is_valid(flash[StatePage0])
  /\ ~is_valid(flash[StatePage1])
  /\ goal(flash[StatePage1]) = "StartSwap"
  /\ calls = 0
  /\ flash = InitFlash(request)

\* C9: what load returns is state page 0 when page 0 passes the CRC check,
\* whatever page 1 holds, and state page 1 when page 0 fails it.
C9_MirrorSelection ==
  pc = "dispatch" =>
    /\ is_valid(flash[StatePage0]) => buffer = flash[StatePage0]
    /\ ~is_valid(flash[StatePage0]) => buffer = flash[StatePage1]

C9_Witness ==
  /\ pc = "dispatch"
  /\ ~is_valid(flash[StatePage0])
  /\ is_valid(flash[StatePage1])
  /\ flash[StatePage0] # flash[StatePage1]
  /\ is_valid(buffer)
  /\ goal(buffer) = "JumpToApplication"
  /\ \A p \in ProgramPages : get_page_state(buffer, p) = Swapped

\* C10: a store that finds the same valid snapshot in both mirrors: at every
\* point of it the next load returns a CRC-valid state; while mirror 0 is
\* erased or partly programmed mirror 1 is still the previous snapshot, and
\* while mirror 1 is erased or partly programmed mirror 0 is the complete new
\* snapshot.
StoreFoundSnapshot == store_from[1] = store_from[2] /\ is_valid(store_from[1])
C10_StoreTolerated ==
  (pc \in {"prepare_swap", "final_store"} /\ StoreFoundSnapshot)
  => /\ is_valid(Durable)
     /\ Len(todo) >= 3 => flash[StatePage1] = store_from[2]
     /\ Len(todo) \in 1..2 => flash[StatePage0] = buffer /\ is_valid(buffer)

C10_Witness ==
  /\ pc = "final_store"
  /\ StoreFoundSnapshot
  /\ Len(todo) = 3
  /\ flash[StatePage0] = ErasedPage
  /\ Durable = store_from[2]

\* the words of the state buffer that hold the PageState of page p
TagWords(p) == {CACHED_PAGES_START + p, COPIED_PAGES_START + p, FINISHED_PAGE_START + p}

\* C11: when burn_store begins after a forward transition of a page (no
\* reset so far, both mirrors hold the state before the transition), every
\* word of the page's triple that it is about to program only clears bits:
\* new_word AND old_word = new_word, in both mirrors.
C11_BurnMonotone ==
  (/\ request.goal \in {"StartSwap", "StartTestSwap"}
   /\ crashes = 0 /\ boots = 1
   /\ pc = "burn_store" /\ todo = burn_store /\ idx = 0)
  => \A i \in TagWords(page) :
       /\ buffer[i] \cap flash[StatePage0][i] = buffer[i]
       /\ buffer[i] \cap flash[StatePage1][i] = buffer[i]

(* --------------------- the state API on its own ------------------------ *)
\* The application and the bootloader call set_goal, set_page_state and
\* get_page_state on a buffer in RAM.  The buffer, the goal (request.goal),
\* the page and the PageState (new_state) are the inputs.
SampleWords ==
  {ZERO, FromNat(1), FromNat(2), FromNat(4), FromNat(255), {31},
   VALID_WORD, VALID_WORD \cup {1}, ERASED \ {0}, ERASED}

ApiPageStates ==
  {Original, Swapped}
    \cup {InScratch(w) : w \in SampleWords}
    \cup {InScratchOverwritten(w) : w \in SampleWords}

\* valid buffers, buffers with a wrong CRC word, the erased page, and a
\* buffer whose CRC word is the CRC of another goal than the one it holds
\* page numbers past the end of an array: the first ones, the first one of
\* the next arrays, and a large one
OutOfRangePages ==
  {TotalProgramPages, TotalProgramPages + 1, 2 * TotalProgramPages,
   3 * TotalProgramPages, 2147483647 - PageWords}

ApiBuffers ==
  {MakeState("JumpToApplication", Swapped),
   MakeState("StartTestSwap", Original),
   Corrupt(MakeState("FinishSwap", Swapped)),
   ErasedPage,
   [MakeState("StartSwap", Original) EXCEPT ![GOAL_INDEX] = GoalWord("StartTestSwap")]}

InitApi ==
  /\ layout = [boot |-> MaxBootPages, scratch |-> 1]
  /\ request \in [goal : Goals, pages : {"Original"}, mirrors : {"same"}]
  /\ flash = InitFlash(request)
  /\ buffer \in ApiBuffers
  /\ pc = "api"
  /\ test_swap = FALSE
  /\ page \in ProgramPages \cup OutOfRangePages
  /\ scratch_page_index = 0
  /\ new_state \in ApiPageStates
  /\ todo = <<>>
  /\ idx = 0
  /\ application_address = -1
  /\ boots = 1
  /\ crashes = 0
  /\ calls = 0
  /\ dispatched = "none"
  /\ crash_at = "none"
  /\ store_from = <<ErasedPage, ErasedPage>>
  /\ config = "Ren"
  /\ panics = 0
  /\ panic_message = FALSE
  /\ first_crash = "none"

ApiSetGoal ==
  /\ pc = "api"
  /\ buffer' = set_goal(buffer, request.goal)
  /\ pc' = "set_goal"
  /\ UNCHANGED <<first_crash, panics, panic_message, config, layout, request, flash, test_swap, page, scratch_page_index, new_state,
                 todo, idx, application_address, boots, crashes, calls, dispatched,
                 crash_at, store_from>>

ApiSetGoalAgain ==
  /\ pc = "set_goal"
  /\ buffer' = set_goal(buffer, request.goal)
  /\ pc' = "set_goal_twice"
  /\ UNCHANGED <<first_crash, panics, panic_message, config, layout, request, flash, test_swap, page, scratch_page_index, new_state,
                 todo, idx, application_address, boots, crashes, calls, dispatched,
                 crash_at, store_from>>

ApiSetPageState ==
  /\ pc = "api"
  /\ IF PageIndexInRange(page)
       THEN buffer' = set_page_state(buffer, page, new_state) /\ pc' = "set_page_state"
       ELSE pc' = "panic" /\ UNCHANGED buffer
  /\ UNCHANGED <<first_crash, panics, panic_message, config, layout, request, flash, test_swap, page, scratch_page_index, new_state,
                 todo, idx, application_address, boots, crashes, calls, dispatched,
                 crash_at, store_from>>

ApiNext ==
  \/ ApiSetGoal
  \/ ApiSetGoalAgain
  \/ ApiSetPageState

ApiSpec == InitApi /\ [][ApiNext]_vars

\* C12 as stated: for every page, every scratch_page value other than
\* VALID_WORD and every variant X, get_page_state after set_page_state(p, X)
\* returns X.
C12_RoundTrip ==
  (pc = "set_page_state" /\ new_state.scratch_page # VALID_WORD)
  => get_page_state(buffer, page) = new_state

\* C12 amended: the same for every variant other than InScratch{0xFFFF_FFFF},
\* whose triple (FF, FF, FF) is the triple of Original.
C12_RoundTripButErased ==
  (/\ pc = "set_page_state"
   /\ new_state.scratch_page # VALID_WORD
   /\ new_state # InScratch(ERASED))
  => get_page_state(buffer, page) = new_state

C12_Witness ==
  /\ pc = "set_page_state"
  /\ new_state = InScratchOverwritten(ERASED)
  /\ page = TotalProgramPages - 1
  /\ goal(buffer) = "StartTestSwap" /\ is_valid(buffer)
  /\ get_page_state(buffer, page) = new_state
  /\ get_page_state(buffer, 0) = Original

\* C13: a second set_goal(g) leaves the buffer as the first set_goal(g) left
\* it, and with it the result of is_valid, for valid and invalid buffers.
C13_SetGoalIdempotent ==
  [][(pc = "set_goal" /\ pc' = "set_goal_twice")
       => (buffer' = buffer /\ is_valid(buffer') = is_valid(buffer))]_vars

C13_Witness ==
  /\ pc = "set_goal_twice"
  /\ request.goal = "StartSwap"
  /\ buffer = Corrupt(MakeState("StartSwap", Swapped))
  /\ ~is_valid(buffer)

(* -------------------------- the swap engine ---------------------------- *)
\* the chain Original -> InScratch -> InScratchOverwritten -> Swapped
NextTag(tag) ==
  CASE tag = "Original" -> "InScratch"
    [] tag = "InScratch" -> "InScratchOverwritten"
    [] tag = "InScratchOverwritten" -> "Swapped"
    [] OTHER -> "none"

\* flash calls of one iteration of the while loop: erase, program, burn_store
IterationCalls == 2 + Len(burn_store)
\* flash calls a boot has issued at most when its for loop is at page p
CallsUpTo(p) ==
  Len(store) + 3 * IterationCalls * (IF p < TotalProgramPages THEN p + 1 ELSE p)

\* C14: every iteration of the while loop for a page moves get_page_state of
\* that page one step along the chain; the match is never entered with the
\* page Swapped; a boot makes at most 3 iterations per page, so that the
\* flash calls of perform_swap are bounded and it comes to its final store.
C14_LoopProgress ==
  [][/\ (pc = "transition" /\ pc' = "burn_store")
        => /\ page' = page
           /\ get_page_state(buffer', page).tag
                = NextTag(get_page_state(buffer, page).tag)
     /\ pc' = "transition"
        => get_page_state(buffer', page').tag
             \in {"Original", "InScratch", "InScratchOverwritten"}
     /\ pc' \in {"perform_swap", "transition", "burn_store"}
        => calls' <= CallsUpTo(page')
     /\ pc' = "final_store"
        => calls' <= CallsUpTo(TotalProgramPages) + Len(store)]_vars

C14_Witness ==
  /\ pc = "final_store"
  /\ crashes = 0 /\ boots = 1
  /\ dispatched = "StartTestSwap"
  /\ calls = CallsUpTo(TotalProgramPages) + Len(store)
  /\ \A p \in ProgramPages : get_page_state(buffer, p) = Swapped

\* the page a transition has written, compared with the page it was read from
DestinationComplete(old, new) ==
  CASE new.tag = "InScratch" ->
         flash[SourcePage(new.scratch_page)] = SlotA(page)
    [] new.tag = "InScratchOverwritten" -> SlotA(page) = SlotB(page)
    [] new.tag = "Swapped" ->
         /\ SourcePage(old.scratch_page) \in FlashPages
         /\ SlotB(page) = flash[SourcePage(old.scratch_page)]
    [] OTHER -> FALSE

\* every word of the RAM buffer has been programmed into mirror m
Programmed(m) == \A i \in WordIdx : flash[m][i] \cap buffer[i] = flash[m][i]

C16_TerminalGoal ==
  [][/\ (pc = "perform_swap" /\ pc' = "final_store")
        => /\ \A p \in ProgramPages : get_page_state(buffer, p).tag = "Swapped"
           /\ test_swap = (dispatched \in {"StartTestSwap", "FinishTestSwap"})
           /\ goal(buffer') = IF test_swap THEN "StartSwap" ELSE "JumpToApplication"
           /\ is_valid(buffer')
           /\ todo' = <<Erase(StatePage0), Program(StatePage0, -1),
                        Erase(StatePage1), Program(StatePage1, -1)>>
     /\ (/\ pc \in {"perform_swap", "transition", "burn_store", "final_store"}
         /\ pc' # "load"
         /\ buffer'[GOAL_INDEX] # buffer[GOAL_INDEX])
        => (pc = "perform_swap" /\ pc' = "final_store")
     /\ (pc = "final_store" /\ pc' = "jump")
        => (flash[StatePage0] = buffer /\ flash[StatePage1] = buffer)]_vars

C16_Witness ==
  /\ pc = "jump"
  /\ dispatched = "FinishTestSwap"
  /\ crashes = 1
  /\ flash[StatePage0] = flash[StatePage1]
  /\ is_valid(flash[StatePage1])
  /\ goal(flash[StatePage1]) = "StartSwap"
  /\ SlotsSwapped

(* ------------------------ states no run produces ----------------------- *)
\* the triple of page p is none of (FF, FF, FF), (s, FF, FF),
\* (s, VALID_WORD, FF) and (*, *, VALID_WORD)
InvalidTriple(buf, p) ==
  LET copied_value == buf[COPIED_PAGES_START + p]
      finished_value == buf[FINISHED_PAGE_START + p]
  IN /\ finished_value # VALID_WORD
     /\ ~(finished_value = ERASED /\ copied_value \in {ERASED, VALID_WORD})

C18_InvalidTripleHalts ==
  [][/\ (/\ pc = "perform_swap" /\ pc' # "load"
         /\ page < TotalProgramPages
         /\ InvalidTriple(buffer, page))
        => (pc' = "panic" /\ flash' = flash /\ calls' = calls /\ todo' = <<>>)
     /\ pc = "panic" => (pc' = "load" /\ boots' = boots + 1)]_vars

C18_Witness ==
  /\ pc = "panic"
  /\ InvalidTriple(buffer, page)
  /\ get_page_state(buffer, page) = InvalidPageState
  /\ buffer[COPIED_PAGES_START + page] = ZERO
  /\ is_valid(buffer) /\ goal(buffer) = "FinishSwap"
  /\ boots = 2

\* C19: a valid state's word[1] decodes as 0 and 0xFFFFFFFF to
\* JumpToApplication, 1 to StartSwap, 2 to FinishSwap, 3 to StartTestSwap,
\* 4 to FinishTestSwap; on every other word the boot panics with no flash
\* call made and none pending, and the only step after it is the next boot.
C19_GoalDecoding ==
  [][/\ (pc = "dispatch" /\ pc' # "load" /\ is_valid(buffer))
        => LET w == buffer[GOAL_INDEX]
               decoded == IF w \in {FromNat(0), ERASED} THEN "JumpToApplication"
                          ELSE IF w = FromNat(1) THEN "StartSwap"
                          ELSE IF w = FromNat(2) THEN "FinishSwap"
                          ELSE IF w = FromNat(3) THEN "StartTestSwap"
                          ELSE IF w = FromNat(4) THEN "FinishTestSwap"
                          ELSE "Invalid"
           IN /\ dispatched' = decoded
              /\ decoded = "Invalid"
                 => (pc' = "panic" /\ flash' = flash /\ calls' = 0 /\ todo' = <<>>)
              /\ decoded # "Invalid" => pc' # "panic"
     /\ (pc = "panic" /\ dispatched = "Invalid") => (pc' = "load" /\ flash' = flash)]_vars

C19_Witness ==
  /\ pc = "panic"
  /\ dispatched = "Invalid"
  /\ request.goal = "UnknownAlmostErased"
  /\ buffer[GOAL_INDEX] = ERASED \ {0}
  /\ is_valid(buffer)
  /\ boots = MaxBoots
  /\ calls = 0

(* ------------------------- layouts without scratch --------------------- *)
\* bootloader_scratch_range is whatever the linker symbols say: its length
\* may be zero, and then its start is the first page of the state region
ScratchlessLayouts == [boot : {MaxBootPages}, scratch : 0..1]

InitLayout ==
  /\ layout \in ScratchlessLayouts
  /\ request \in {r \in Requests : r.goal \in {"StartSwap", "StartTestSwap"}
                                    /\ r.pages # "Tampered"
                                    /\ r.mirrors = "same"}
  /\ flash = InitFlash(request)
  /\ buffer = ErasedPage
  /\ pc = "load"
  /\ test_swap = FALSE
  /\ page = 0
  /\ scratch_page_index = 0
  /\ new_state = Original
  /\ todo = <<>>
  /\ idx = 0
  /\ application_address = -1
  /\ boots = 1
  /\ crashes = 0
  /\ calls = 0
  /\ dispatched = "none"
  /\ crash_at = "none"
  /\ store_from = <<ErasedPage, ErasedPage>>
  /\ config = "Ren"
  /\ panics = 0
  /\ panic_message = FALSE
  /\ first_crash = "none"

LayoutSpec == InitLayout /\ [][Next]_vars

\* C20: with a scratch region of no page, no boot issues an erase_page or a
\* program_page: flash stays as the first boot found it.
C20_LayoutChecked == layout.scratch = 0 => flash = InitFlash(request)

(* --------------------------- handoff walker ---------------------------- *)
\* slot A as jump_to_application reads it: word k at address SlotAAddress(k)
SlotAWords == 0..(TotalProgramPages * PageWords - 1)
SlotAWord(k) == flash[program_slot_a_page_range.start + (k \div PageWords)][k % PageWords]
SlotAAddress(k) ==
  (program_slot_a_page_range.start + (k \div PageWords)) * PAGE_SIZE + 4 * (k % PageWords)
Padding(w) == w = ERASED \/ w = ZERO

\* words at and around the ends of the two windows the walker tests:
\* 0x1FFFFFFC, 0x20000000, 0x2003FFFC, 0x20040000 and the first and last
\* word address of slot A with the word before and the word after
SampleVectorWords ==
  { ERASED, ZERO,
    FromNat(536870912 - 4), FromNat(536870912),
    FromNat(536870912 + 262144 - 4), FromNat(536870912 + 262144),
    FromNat(program_slot_a_page_range.start * PAGE_SIZE - 4),
    FromNat(program_slot_a_page_range.start * PAGE_SIZE),
    FromNat(program_slot_a_page_range.end * PAGE_SIZE - 4),
    FromNat(program_slot_a_page_range.end * PAGE_SIZE) }

\* images that differ in their first three words and in their last word
HandoffImages ==
  { [k \in SlotAWords |-> IF k < 3 THEN head[k + 1]
                          ELSE IF k = TotalProgramPages * PageWords - 1 THEN last
                          ELSE ERASED] :
      head \in [1..3 -> SampleVectorWords],
      last \in {ERASED, FromNat(536870912)} }

InitHandoff ==
  /\ layout = [boot |-> MaxBootPages, scratch |-> 1]
  /\ request = [goal |-> "JumpToApplication", pages |-> "Swapped", mirrors |-> "same"]
  /\ \E image \in HandoffImages :
       flash = [pg \in FlashPages |->
                  IF /\ pg >= program_slot_a_page_range.start
                     /\ pg < program_slot_a_page_range.end
                    THEN [i \in WordIdx |->
                            image[(pg - program_slot_a_page_range.start) * PageWords + i]]
                    ELSE InitFlash(request)[pg]]
  /\ buffer = ErasedPage
  /\ pc = "load"
  /\ test_swap = FALSE
  /\ page = 0
  /\ scratch_page_index = 0
  /\ new_state = Original
  /\ todo = <<>>
  /\ idx = 0
  /\ application_address = -1
  /\ boots = 1
  /\ crashes = 0
  /\ calls = 0
  /\ dispatched = "none"
  /\ crash_at = "none"
  /\ store_from = <<ErasedPage, ErasedPage>>
  /\ config = "Ren"
  /\ panics = 0
  /\ panic_message = FALSE
  /\ first_crash = "none"

HandoffNext ==
  \/ Load
  \/ Dispatch
  \/ JumpToApplication
  \/ Reboot

HandoffSpec == InitHandoff /\ [][HandoffNext]_vars

\* C21: when slot A reads as padding words, then at word k a value in the
\* SRAM window, then at word k + 1 a value in slot A, the handoff bootloads
\* the address of word k.
C21_HandoffSuccess ==
  [][(pc = "jump" /\ pc' # "load")
     => \A k \in SlotAWords :
          (/\ k + 1 \in SlotAWords
           /\ \A j \in 0..(k - 1) : Padding(SlotAWord(j))
           /\ InSram(SlotAWord(k))
           /\ InSlotA(SlotAWord(k + 1)))
          => (pc' = "app" /\ application_address' = SlotAAddress(k))]_vars

C21_Witness ==
  /\ pc = "app"
  /\ Padding(SlotAWord(0))
  /\ InSram(SlotAWord(1))
  /\ InSlotA(SlotAWord(2))
  /\ application_address = SlotAAddress(1)

\* C22: a handoff bootloads the address of a word that is directly followed,
\* inside slot A, by a word whose value lies in slot A.
C22_ResetVectorFollows ==
  [][(pc = "jump" /\ pc' = "app")
     => \E k \in SlotAWords :
          /\ application_address' = SlotAAddress(k)
          /\ k + 1 \in SlotAWords
          /\ InSlotA(SlotAWord(k + 1))]_vars

\* C23: when the first word of slot A that is not padding lies outside the
\* SRAM window, or every word is padding, the handoff panics with no
\* address chosen, and the panic is followed by the next boot only.
C23_NoVectorTable ==
  [][/\ (/\ pc = "jump" /\ pc' # "load"
         /\ \/ \A k \in SlotAWords : Padding(SlotAWord(k))
            \/ \E k \in SlotAWords :
                 /\ \A j \in 0..(k - 1) : Padding(SlotAWord(j))
                 /\ ~Padding(SlotAWord(k))
                 /\ ~InSram(SlotAWord(k)))
        => (pc' = "panic" /\ application_address' = -1)
     /\ (pc = "panic" /\ application_address = -1) => pc' = "load"]_vars

C23_Witness ==
  /\ pc = "panic"
  /\ dispatched = "JumpToApplication"
  /\ Padding(SlotAWord(0))
  /\ InSlotA(SlotAWord(1))
  /\ InSram(SlotAWord(2))
  /\ application_address = -1

(* --------------------------- flash operations -------------------------- *)
\* Flash::erase_page and Flash::program_page on their own, called with any
\* address and any data: request is the call with the content it finds in
\* the page, todo the call that runs, idx the position of the iterator.
\* 0x0010_0000, the end of flash, is scaled to the pages of the model.
FlashSize == Cardinality(FlashPages) * PAGE_SIZE

\* a check that lets every address below the end of flash pass
assert_valid_page_address_unaligned(page_address) == page_address < FlashSize

\* assert_valid_page_address: TRUE when neither assert fires
assert_valid_page_address(page_address) ==
  /\ page_address % PAGE_SIZE = 0
  /\ page_address < FlashSize

\* the page that the controller erases or writes into
PageOf(page_address) == page_address \div PAGE_SIZE

\* a filter that lets every word pass
FlashDiffering_every_word(call, i) ==
  {j \in WordIdx : j >= i /\ j < Len(call.data)}

\* data.iter().zip(page_words).filter(..): the positions from i on whose data
\* word differs from the flash word
FlashDiffering(call, i) ==
  {j \in WordIdx : /\ j >= i
                   /\ j < Len(call.data)
                   /\ call.data[j + 1] # flash[PageOf(call.page_address)][j]}

FirstPage == bootloader_scratch_page_range.start
SampleAddresses ==
  { FirstPage * PAGE_SIZE, FirstPage * PAGE_SIZE + 4, FirstPage * PAGE_SIZE + PAGE_SIZE - 4,
    FlashSize - PAGE_SIZE, FlashSize, FlashSize + 4 }
FoundPages == {ErasedPage, OrigA(1)}
DataLengths == {0, 2, PageWords, PageWords + 1}

\* data that is the found page but for the positions in d, where it is w
FlashData(found, len, d, w) ==
  [i \in 1..len |-> IF (i - 1) \in d THEN w
                    ELSE IF i - 1 \in WordIdx THEN found[i - 1] ELSE ERASED]

FlashRequests ==
  { [kind |-> "erase", page_address |-> a, data |-> <<>>, found |-> f] :
      a \in SampleAddresses, f \in FoundPages }
  \cup
  { [kind |-> "program", page_address |-> a, data |-> FlashData(f, len, d, w),
     found |-> f] :
      a \in SampleAddresses, f \in FoundPages, len \in DataLengths,
      d \in SUBSET {0, 1, PageWords - 1}, w \in {ZERO, ERASED} }

\* the flash before the call
FlashFound(r) ==
  [pg \in FlashPages |->
     IF pg = PageOf(r.page_address) THEN r.found
     ELSE InitFlash([goal |-> "JumpToApplication", pages |-> "Swapped",
                     mirrors |-> "same"])[pg]]

InitFlashCall ==
  /\ layout = [boot |-> MaxBootPages, scratch |-> 1]
  /\ request \in FlashRequests
  /\ flash = FlashFound(request)
  /\ todo = <<[kind |-> request.kind, page_address |-> request.page_address,
               data |-> request.data]>>
  /\ buffer = ErasedPage
  /\ pc = "flash_call"
  /\ test_swap = FALSE
  /\ page = 0
  /\ scratch_page_index = 0
  /\ new_state = Original
  /\ idx = 0
  /\ application_address = -1
  /\ boots = 1
  /\ crashes = 0
  /\ calls = 0
  /\ dispatched = "none"
  /\ crash_at = "none"
  /\ store_from = <<ErasedPage, ErasedPage>>
  /\ config = "Ren"
  /\ panics = 0
  /\ panic_message = FALSE
  /\ first_crash = "none"

\* the asserts at the head of both operations, then config.modify(een / wen)
FlashEnter ==
  /\ pc = "flash_call"
  /\ IF \/ ~assert_valid_page_address(Head(todo).page_address)
        \/ (Head(todo).kind = "program" /\ Len(Head(todo).data) > PageWords)
       THEN pc' = "panic" /\ UNCHANGED config
       ELSE /\ pc' = "flash_enabled"
            /\ config' = IF Head(todo).kind = "erase" THEN "Een" ELSE "Wen"
  /\ UNCHANGED <<first_crash, panics, panic_message, layout, request, flash, buffer, test_swap, page, scratch_page_index,
                 new_state, todo, idx, application_address, boots, crashes, calls,
                 dispatched, crash_at, store_from>>

\* first_word.write_volatile(0xFFFFFFFF) and the wait for ready
FlashErase ==
  /\ pc = "flash_enabled"
  /\ Head(todo).kind = "erase"
  /\ flash' = erase_page(flash, PageOf(Head(todo).page_address))
  /\ pc' = "flash_written"
  /\ UNCHANGED <<first_crash, panics, panic_message, config, layout, request, buffer, test_swap, page, scratch_page_index,
                 new_state, todo, idx, application_address, boots, crashes, calls,
                 dispatched, crash_at, store_from>>

\* one turn of program_page's for loop
FlashWriteWord ==
  /\ pc = "flash_enabled"
  /\ Head(todo).kind = "program"
  /\ FlashDiffering(Head(todo), idx) # {}
  /\ LET j == CHOOSE j \in FlashDiffering(Head(todo), idx) :
                \A k \in FlashDiffering(Head(todo), idx) : j <= k
     IN /\ flash' = write_word(flash, PageOf(Head(todo).page_address), j,
                               Head(todo).data[j + 1])
        /\ idx' = j + 1
  /\ UNCHANGED <<first_crash, panics, panic_message, config, layout, request, buffer, pc, test_swap, page,
                 scratch_page_index, new_state, todo, application_address, boots,
                 crashes, calls, dispatched, crash_at, store_from>>

\* the iterator is exhausted
FlashWritten ==
  /\ pc = "flash_enabled"
  /\ Head(todo).kind = "program"
  /\ FlashDiffering(Head(todo), idx) = {}
  /\ pc' = "flash_written"
  /\ UNCHANGED <<first_crash, panics, panic_message, config, layout, request, flash, buffer, test_swap, page,
                 scratch_page_index, new_state, todo, idx, application_address, boots,
                 crashes, calls, dispatched, crash_at, store_from>>

\* an operation that returns with the mode it set
FlashReturn_keeps_mode ==
  /\ pc = "flash_written"
  /\ pc' = "flash_return"
  /\ todo' = <<>>
  /\ UNCHANGED <<first_crash, panics, panic_message, config, layout, request, flash, buffer, test_swap, page,
                 scratch_page_index, new_state, idx, application_address, boots,
                 crashes, calls, dispatched, crash_at, store_from>>

\* config.modify(ren), dsb, isb, return
FlashReturn ==
  /\ pc = "flash_written"
  /\ config' = "Ren"
  /\ pc' = "flash_return"
  /\ todo' = <<>>
  /\ UNCHANGED <<first_crash, panics, panic_message, layout, request, flash, buffer, test_swap, page, scratch_page_index,
                 new_state, idx, application_address, boots, crashes, calls,
                 dispatched, crash_at, store_from>>

FlashNext ==
  \/ FlashEnter
  \/ FlashErase
  \/ FlashWriteWord
  \/ FlashWritten
  \/ FlashReturn

FlashSpec == InitFlashCall /\ [][FlashNext]_vars

\* the call breaks a precondition of the operation
Misuse(r) ==
  \/ r.page_address % PAGE_SIZE # 0
  \/ r.page_address >= FlashSize
  \/ (r.kind = "program" /\ Len(r.data) > PageWords)

\* C24: program_page writes word j exactly when data[j] differs from the
\* flash word, in increasing order of j: a step that moves the iterator to
\* j + 1 has passed only equal words, writes data[j] over a different word
\* and changes nothing else; the loop ends when no different word is left;
\* after the return every word that was equal to its data word, and every
\* word from Len(data) on, is as the call found it.
C24_SparseProgramming ==
  [][/\ (pc = "flash_enabled" /\ request.kind = "program" /\ idx' # idx)
        => LET j == idx' - 1
               pg == PageOf(request.page_address)
           IN /\ j >= idx /\ j < Len(request.data)
              /\ \A i \in idx..(j - 1) : request.data[i + 1] = flash[pg][i]
              /\ request.data[j + 1] # flash[pg][j]
              /\ flash' = [flash EXCEPT ![pg][j] = @ \cap request.data[j + 1]]
     /\ (pc = "flash_enabled" /\ request.kind = "program" /\ idx' = idx)
        => /\ flash' = flash
           /\ \A i \in WordIdx :
                (i >= idx /\ i < Len(request.data))
                => request.data[i + 1] = flash[PageOf(request.page_address)][i]
     /\ (request.kind = "program" /\ pc' = "flash_return")
        => \A pg \in FlashPages : \A i \in WordIdx :
             (\/ pg # PageOf(request.page_address)
              \/ i >= Len(request.data)
              \/ request.data[i + 1] = request.found[i])
             => flash'[pg][i] = FlashFound(request)[pg][i]]_vars

C24_Witness ==
  /\ pc = "flash_return"
  /\ request.kind = "program"
  /\ Len(request.data) = 2
  /\ request.found = OrigA(1)
  /\ request.data[1] = request.found[0]
  /\ request.data[2] = ZERO
  /\ flash[PageOf(request.page_address)] = [request.found EXCEPT ![1] = ZERO]

\* C25: a call with an address that is no multiple of the page size or lies
\* at or past the end of flash, or a program_page with more words than a
\* page holds, only panics: the controller stays read-only and the flash is
\* as the call found it.
C25_MisuseHalts ==
  Misuse(request)
  => /\ pc \in {"flash_call", "panic"}
     /\ config = "Ren"
     /\ flash = FlashFound(request)

C25_Witness ==
  /\ pc = "panic"
  /\ request.kind = "erase"
  /\ request.page_address % PAGE_SIZE = 4
  /\ request.page_address < FlashSize
  /\ request.found = OrigA(1)
  /\ flash = FlashFound(request)

\* C26: the controller is read-only before a call, after its return and
\* after its panic; erase-enable is set only inside an erase_page and
\* write-enable only inside a program_page, after the entry checks passed.
C26_ReadOnlyOutside ==
  /\ pc \in {"flash_call", "flash_return", "panic"} => config = "Ren"
  /\ config = "Een" => (request.kind = "erase" /\ ~Misuse(request))
  /\ config = "Wen" => (request.kind = "program" /\ ~Misuse(request))

C26_Witness ==
  /\ pc = "flash_return"
  /\ request.kind = "program"
  /\ config = "Ren"
  /\ flash # FlashFound(request)

(* ------------------------- prepare and resume -------------------------- *)
FinishGoals == {"FinishSwap", "FinishTestSwap"}

\* C27: prepare_swap, called on a valid state, leaves the buffer with goal
\* FinishSwap (FinishTestSwap for a test swap), every page Original and a
\* matching CRC; when its store returns both mirrors equal that buffer.
C27_PrepareSwap ==
  [][/\ (pc = "dispatch" /\ pc' = "prepare_swap")
        => /\ is_valid(buffer)
           /\ test_swap' = (goal(buffer) = "StartTestSwap")
           /\ goal(buffer') = IF test_swap' THEN "FinishTestSwap" ELSE "FinishSwap"
           /\ \A p \in ProgramPages : get_page_state(buffer', p) = Original
           /\ is_valid(buffer')
     /\ (pc = "prepare_swap" /\ pc' = "perform_swap")
        => /\ buffer' = buffer
           /\ flash[StatePage0] = buffer
           /\ flash[StatePage1] = buffer]_vars

C27_Witness ==
  /\ pc = "perform_swap"
  /\ page = 0
  /\ crashes = 0
  /\ request.pages = "Swapped"
  /\ dispatched = "StartSwap"
  /\ goal(buffer) = "FinishSwap"
  /\ is_valid(buffer)
  /\ \A p \in ProgramPages : get_page_state(buffer, p) = Original
  /\ flash[StatePage0] = buffer /\ flash[StatePage1] = buffer

\* C28: a boot that loads a valid state with goal FinishSwap or
\* FinishTestSwap goes to perform_swap with the buffer as loaded and no store;
\* in such a boot a page that is Swapped stays Swapped and gets no flash
\* call, the flash changes only in the mirrors, in the scratch region and in
\* the slot pages of a page that is not Swapped, and a page found InScratch{s}
\* or InScratchOverwritten{s} goes on with its next transition, reading the
\* scratch page s.
C28_ResumeKeepsWork ==
  [][/\ (pc = "dispatch" /\ pc' # "load" /\ is_valid(buffer)
           /\ goal(buffer) \in FinishGoals)
        => /\ pc' = "perform_swap"
           /\ buffer' = buffer
           /\ flash' = flash
           /\ todo' = <<>>
           /\ calls' = 0
     /\ (dispatched \in FinishGoals /\ pc' # "load")
        => \A p \in ProgramPages :
             get_page_state(buffer, p) = Swapped
             => /\ get_page_state(buffer', p) = Swapped
                /\ SlotA(p)' = SlotA(p)
                /\ SlotB(p)' = SlotB(p)
     /\ (dispatched \in FinishGoals /\ pc = "perform_swap" /\ pc' # "load"
           /\ page < TotalProgramPages)
        => LET state == get_page_state(buffer, page)
               slot_a_page == program_slot_a_page_range.start + page
               slot_b_page == program_slot_b_page_range.start + page
           IN CASE state.tag = "Swapped" ->
                     /\ todo' = <<>> /\ calls' = calls /\ page' = page + 1
                [] state.tag = "InScratch" ->
                     /\ todo' = <<Erase(slot_a_page), Program(slot_a_page, slot_b_page)>>
                     /\ new_state' = InScratchOverwritten(state.scratch_page)
                [] state.tag = "InScratchOverwritten" ->
                     /\ todo' = <<Erase(slot_b_page),
                                  Program(slot_b_page, ToNat(state.scratch_page \cap (0..19)))>>
                     /\ new_state' = Swapped
                [] OTHER -> TRUE]_vars

C28_Witness ==
  /\ pc = "jump"
  /\ boots = 2 /\ crashes = 1
  /\ dispatched = "FinishSwap"
  /\ layout.boot = MaxBootPages
  /\ calls = IterationCalls + Len(store)
  /\ SlotsSwapped

\* C29: the running index is the page number modulo the number of scratch
\* pages in every boot; the first transition of page p copies slot A's page
\* to scratch page start + (p mod S) and records that page number; the two
\* other transitions take the scratch page from the recorded tag.
C29_RoundRobin ==
  [][/\ (pc' \in {"perform_swap", "transition", "burn_store"}
           /\ page' < TotalProgramPages)
        => scratch_page_index' = page' % layout.scratch
     /\ (pc = "perform_swap" /\ pc' = "transition")
        => LET state == get_page_state(buffer, page)
               slot_a_page == program_slot_a_page_range.start + page
               slot_b_page == program_slot_b_page_range.start + page
               scratch_page == bootloader_scratch_page_range.start
                                 + (page % layout.scratch)
           IN CASE state.tag = "Original" ->
                     /\ todo' = <<Erase(scratch_page), Program(scratch_page, slot_a_page)>>
                     /\ new_state' = InScratch(FromNat(scratch_page))
                [] state.tag = "InScratch" ->
                     /\ new_state' = InScratchOverwritten(state.scratch_page)
                     /\ \A i \in 1..Len(todo') : todo'[i].dst = slot_a_page
                [] state.tag = "InScratchOverwritten" ->
                     /\ Len(todo') = 2
                     /\ todo'[2].src = ToNat(state.scratch_page \cap (0..19))
                [] OTHER -> FALSE]_vars

C29_Witness ==
  /\ pc = "transition"
  /\ boots = 2
  /\ dispatched \in FinishGoals
  /\ layout.scratch = 2
  /\ page = 1
  /\ get_page_state(buffer, 0) = Swapped
  /\ calls = 2
  /\ todo = <<Erase(bootloader_scratch_page_range.start + 1),
              Program(bootloader_scratch_page_range.start + 1,
                      program_slot_a_page_range.start + 1)>>

\* C30: while a store runs, whenever state page 0 fails the CRC check,
\* state page 1 holds the snapshot that page 0 held, valid, when the store
\* began: the same goal and the same state of every page.
C30_BackupFresh ==
  (/\ pc \in {"prepare_swap", "final_store"}
   /\ is_valid(store_from[1])
   /\ ~is_valid(flash[StatePage0]))
  => /\ goal(flash[StatePage1]) = goal(store_from[1])
     /\ \A p \in ProgramPages :
          get_page_state(flash[StatePage1], p) = get_page_state(store_from[1], p)

(* ----------------------- the state API, frame effects ------------------ *)
\* C31: set_goal(g) on a buffer that passes the CRC check leaves a buffer
\* that passes it and whose goal is g; on a buffer that fails the check it
\* changes word 1 only: word 0 and every other word are as before.
C31_SetGoalValidity ==
  [][(pc = "api" /\ pc' = "set_goal")
     => /\ is_valid(buffer)
           => (is_valid(buffer') /\ goal(buffer') = request.goal)
        /\ ~is_valid(buffer)
           => /\ buffer'[CRC_INDEX] = buffer[CRC_INDEX]
              /\ \A i \in WordIdx \ {GOAL_INDEX} : buffer'[i] = buffer[i]
              /\ buffer'[GOAL_INDEX] = GoalWord(request.goal)]_vars

C31_Witness ==
  /\ pc = "set_goal"
  /\ request.goal = "FinishSwap"
  /\ ~is_valid(buffer)
  /\ buffer[CRC_INDEX] = ERASED
  /\ buffer = [ErasedPage EXCEPT ![GOAL_INDEX] = GoalWord("FinishSwap")]

(* ------------------------- the panic interlock ------------------------- *)
\* PANIC_COUNTS lies in .uninit: after power-on it reads as anything.  The
\* values at and around the threshold and the largest positive word stand
\* for it.  A boot ends in the application or, with a goal word that is no
\* goal, in a panic.
PanicCounts == {0, 1, PanicLimit - 1, PanicLimit, PanicLimit + 1, PanicLimit + 2, 2147483647}

InitPanic ==
  /\ layout = [boot |-> MaxBootPages, scratch |-> 1]
  /\ request \in {r \in Requests : /\ r.goal \in {"JumpToApplication", "Unknown"}
                                    /\ r.mirrors = "same"}
  /\ flash = InitFlash(request)
  /\ buffer = ErasedPage
  /\ pc = "load"
  /\ test_swap = FALSE
  /\ page = 0
  /\ scratch_page_index = 0
  /\ new_state = Original
  /\ todo = <<>>
  /\ idx = 0
  /\ application_address = -1
  /\ boots = 1
  /\ crashes = 0
  /\ calls = 0
  /\ dispatched = "none"
  /\ crash_at = "none"
  /\ store_from = <<ErasedPage, ErasedPage>>
  /\ config = "Ren"
  /\ panics \in PanicCounts
  /\ panic_message \in BOOLEAN
  /\ first_crash = "none"

PanicNext ==
  \/ Load
  \/ UartByte
  \/ Dispatch
  \/ JumpToApplication
  \/ Reset
  \/ Reboot

PanicSpec == InitPanic /\ [][PanicNext]_vars

\* C32: at boot a counter above 10 is first set to 0, then a persisted
\* panic message adds one; the boot waits for a UART byte, the state not yet
\* loaded, exactly when the result is above 10, and the byte sets the
\* counter to 0; the state is loaded by these two steps only, and the
\* counter is at most 10 when the dispatcher has it.
C32_PanicInterlock ==
  [][/\ (pc = "load" /\ pc' # "load")
        => LET first == IF panics > 10 THEN 0 ELSE panics
               second == IF panic_message THEN first + 1 ELSE first
           IN /\ panics' = second
              /\ (pc' = "sleep") <=> (second > 10)
              /\ pc' = "sleep" => buffer' = buffer
              /\ pc' # "sleep" => (pc' = "dispatch" /\ buffer' = load(flash))
     /\ (pc = "sleep" /\ pc' # "load")
        => (panics' = 0 /\ pc' = "dispatch" /\ buffer' = load(flash))
     /\ (pc' = "dispatch" /\ pc # "dispatch") => pc \in {"load", "sleep"}
     /\ pc' = "dispatch" => panics' <= 10]_vars

C32_Witness ==
  /\ pc = "sleep"
  /\ panics = 11
  /\ boots = 2
  /\ request.goal = "Unknown"
  /\ buffer = ErasedPage
  /\ ~panic_message

(* --------------------------- whole behaviours -------------------------- *)
SlotAIsImageA == \A p \in ProgramPages : SlotA(p) = OrigA(p)
SlotAIsImageB == \A p \in ProgramPages : SlotA(p) = OrigB(p)

\* C33: whenever a boot has come to the application handoff, slot A holds
\* the original image A in every page or the original image B in every
\* page (first boot on two complete images and a state that the state API
\* produces).
C33_WholeImage ==
  (request.pages # "Tampered" /\ pc \in {"jump", "app"})
  => (SlotAIsImageA \/ SlotAIsImageB)

\* a swap is requested in a state that the state API produces and that load
\* returns
RequestedSwap ==
  /\ request.goal \in {"StartSwap", "StartTestSwap"}
  /\ request.pages # "Tampered"
  /\ request.mirrors \in {"same", "primary_corrupt"}
ScratchErased == \A s \in ScratchPages : flash[s] = ErasedPage

\* C34: the first reset hits prepare_swap's store, a second reset, if any,
\* the final store, and no boot has handed off before.  At the first reset
\* slot A, slot B and scratch are as before the boot.  A boot that comes to
\* the handoff finds the durable state valid, the slots exchanged and the
\* terminal goal of the requested kind stored (JumpToApplication for
\* StartSwap, StartSwap for StartTestSwap); or, when the reset in the final
\* store came after the terminal goal StartSwap of a test swap was stored,
\* it has carried out that StartSwap: the slots are as at the start and the
\* goal JumpToApplication is stored.
C34_PrepareResetHarmless ==
  (/\ RequestedSwap
   /\ first_crash = "prepare_swap"
   /\ crashes = 2 => crash_at = "final_store"
   /\ boots = crashes + 1)
  => /\ (crashes = 1 /\ pc = "load") => (SlotsOriginal /\ ScratchErased)
     /\ pc \in {"jump", "app"}
        => /\ is_valid(Durable)
           /\ IF request.goal = "StartTestSwap" /\ dispatched = "StartSwap"
                THEN SlotsOriginal /\ goal(Durable) = "JumpToApplication"
                ELSE /\ SlotsSwapped
                     /\ goal(Durable) = terminal_goal(request.goal = "StartTestSwap")

TestGoals == {"StartTestSwap", "FinishTestSwap"}
\* the goal that prepare_swap stores for a swap of the kind
FinishGoal(test) == IF test THEN "FinishTestSwap" ELSE "FinishSwap"

\* C35: a boot that resumes a swap takes test_swap from the stored goal
\* (true for FinishTestSwap, false for FinishSwap), and a swap ends with
\* the goal StartSwap when it began as a test swap and JumpToApplication
\* when it did not.  A reset that hits a swap at any point leaves a valid
\* durable state of the same kind: the goal the boot found or the Finish
\* goal of the kind when prepare_swap's store was hit, the Finish goal when
\* the page loop was hit, the Finish goal or the terminal goal of the kind
\* when the final store was hit.
C35_KindSurvives ==
  [][/\ (pc = "dispatch" /\ pc' = "perform_swap")
        => test_swap' = (goal(buffer) = "FinishTestSwap")
     /\ (pc = "perform_swap" /\ pc' = "final_store")
        => goal(buffer') = IF dispatched \in TestGoals THEN "StartSwap"
                           ELSE "JumpToApplication"
     /\ (/\ crashes' = crashes + 1
         /\ dispatched \in SwapGoals
         /\ pc \in {"prepare_swap", "perform_swap", "transition", "burn_store",
                     "final_store"})
        => LET test == dispatched \in TestGoals
           IN /\ is_valid(Durable')
              /\ goal(Durable') \in
                   CASE pc = "prepare_swap" -> {dispatched, FinishGoal(test)}
                     [] pc = "final_store" -> {FinishGoal(test), terminal_goal(test)}
                     [] OTHER -> {FinishGoal(test)}]_vars

ScratchTags == {"InScratch", "InScratchOverwritten"}
\* the swap in progress was prepared by the bootloader, not written from
\* outside
BootloaderPrepared == ~(request.pages = "Tampered" /\ request.goal \in FinishGoals)

\* C36: in a valid state with goal FinishSwap or FinishTestSwap that a boot
\* loads, a page that is InScratch or InScratchOverwritten has only Swapped
\* pages below it and only Original pages above it; and when perform_swap
\* is about to erase a scratch page for a page, no other page is InScratch
\* or InScratchOverwritten, in RAM or in the durable state.
C36_SingleFrontier ==
  [][/\ (/\ pc' = "dispatch" /\ BootloaderPrepared
         /\ is_valid(buffer') /\ goal(buffer') \in FinishGoals)
        => \A p \in ProgramPages :
             get_page_state(buffer', p).tag \in ScratchTags
             => /\ \A q \in 0..(p - 1) : get_page_state(buffer', q) = Swapped
                /\ \A q \in (p + 1)..(TotalProgramPages - 1) :
                     get_page_state(buffer', q) = Original
     /\ (/\ pc = "perform_swap" /\ pc' = "transition" /\ BootloaderPrepared
         /\ new_state'.tag = "InScratch")
        => \A q \in ProgramPages \ {page} :
             /\ get_page_state(buffer, q).tag \notin ScratchTags
             /\ get_page_state(Durable, q).tag \notin ScratchTags]_vars

C36_Witness ==
  /\ pc = "dispatch"
  /\ boots = 2
  /\ request.goal = "StartSwap"
  /\ is_valid(buffer) /\ goal(buffer) = "FinishSwap"
  /\ get_page_state(buffer, 0) = Swapped
  /\ get_page_state(buffer, 1).tag = "InScratchOverwritten"

\* C37: whenever perform_swap reads InScratch{s} or InScratchOverwritten{s}
\* for its page from a state that only the bootloader has written, s is the
\* number of a page of the scratch region.
C37_ScratchTagInRange ==
  (/\ pc = "perform_swap" /\ page < TotalProgramPages
   /\ request.pages # "Tampered"
   /\ get_page_state(buffer, page).tag \in ScratchTags)
  => \E s \in ScratchPages : get_page_state(buffer, page).scratch_page = FromNat(s)

PagesOf(range) == range.start..(range.end - 1)
\* the pages of the scratch, state, slot A and slot B regions
ManagedPages ==
  PagesOf(bootloader_scratch_page_range) \cup PagesOf(bootloader_state_page_range)
    \cup PagesOf(program_slot_a_page_range) \cup PagesOf(program_slot_b_page_range)

\* C38: every erase_page and program_page call that a boot issues has its
\* destination in the scratch, state, slot A or slot B region, and every
\* page of the bootloader's code is as it was before the first boot.
C38_WritesManaged ==
  /\ \A i \in 1..Len(todo) : todo[i].dst \in ManagedPages
  /\ \A pg \in PagesOf(bootloader_flash_page_range) : flash[pg] = CodePage(pg)

C38_Witness ==
  /\ pc = "transition"
  /\ crashes = 2
  /\ layout.boot = MaxBootPages - 2
  /\ todo = <<Program(program_slot_b_page_range.start + 1, 0)>>
  /\ SlotB(1) # ErasedPage

\* C39: set_page_state(p, X) for a page p of the arrays changes the three
\* tag words of p only: the goal, the stored CRC, the result of is_valid and
\* the state of every other page are as before; for a p past the end of an
\* array it panics and writes nothing.
C39_SetPageStateLocal ==
  [][(pc = "api" /\ pc' \in {"set_page_state", "panic"})
     => /\ page \in ProgramPages
           => /\ pc' = "set_page_state"
              /\ \A i \in WordIdx \ TagWords(page) : buffer'[i] = buffer[i]
              /\ buffer'[GOAL_INDEX] = buffer[GOAL_INDEX]
              /\ buffer'[CRC_INDEX] = buffer[CRC_INDEX]
              /\ is_valid(buffer') = is_valid(buffer)
              /\ \A q \in ProgramPages \ {page} :
                   get_page_state(buffer', q) = get_page_state(buffer, q)
        /\ page \notin ProgramPages
           => (pc' = "panic" /\ buffer' = buffer)]_vars

C39_Witness ==
  /\ pc = "panic"
  /\ page = 2 * TotalProgramPages
  /\ new_state = Swapped
  /\ buffer = MakeState("StartTestSwap", Original)
====
